---- MODULE Spec2Model ----
(***************************************************************************)
(* The Daring Divas curator (curator.js): one run of runCurator fetches    *)
(* the published censored list from a Gist, enumerates the collection,     *)
(* hashes every token's live image, compares the hash with the master      *)
(* hashes, rebuilds the censored list from scratch and PATCHes the Gist    *)
(* when the key sets differ.                                               *)
(*                                                                         *)
(* Values: a string is a sequence of one-character strings; a perceptual   *)
(* hash is a string over "0"/"1"; a token id is a decimal string.  A JS    *)
(* object whose keys are all integer-like is the sequence of its keys in   *)
(* property order (ascending numeric order, whatever the insertion order). *)
(***************************************************************************)
EXTENDS Integers, Sequences, FiniteSets, TLC

\* ------------------------------------------------------------------ bounds
NumItems == 2        \* tokens the contract iterator yields
HashLen == 7         \* characters of a perceptual hash
MaxRefs == 2         \* entries of master-hashes.json in the comparator runs

\* ------------------------------------------------------- program constants
SIMILARITY_THRESHOLD == 5

VARIABLES
  world,                \* per token: what resolving and hashing it yields
  masterHashes,         \* require('./master-hashes.json'), in property order
  gist,                 \* the Gist document: [kind, content]
  mintedImages,         \* token ids with a file in ./minted-images
  pc,                   \* position of the run
  currentCensoredList,  \* runCurator's local, an object (key sequence)
  fetchHow,             \* how getCurrentCensoredList returned
  newCensoredList,      \* runCurator's local, an object (key sequence)
  twinList,             \* the list a twin run builds whose cache holds every image
  allNfts,              \* runCurator's local array
  idx,                  \* number of array elements the for-of loop has consumed
  outcomes,             \* per consumed token: how its iteration ended, on which hash
  matchLog,             \* the "Match found" lines of this run
  changed,              \* "unset", or the outcome of the comparison of line 186
  patchCalls,           \* axios.patch calls of this run
  patchOk,              \* the PATCH of this run succeeded
  errorAt,              \* where the error that rejected runCurator was thrown
  finishedLogged,       \* "Curator run finished successfully." was printed
  fatalLogged,          \* "--- A FATAL ERROR OCCURRED ---" was printed
  exitCode,             \* the exit code of the node process
  prevPublished,        \* the run before this one PATCHed the Gist successfully,
                        \* and the tokens have not changed since
  prevBuilt,            \* the list that run built and wrote (else empty)
  prevOutcomes,         \* the outcomes of that run (else empty)
  hash1,                \* comparator runs: the token's hash
  distResult,           \* comparator runs: result of one calculateHammingDistance call
  classResult,          \* comparator runs: result of the for-in loop
  cpc                   \* comparator runs: position

runVars == <<currentCensoredList, fetchHow, newCensoredList, twinList, allNfts, idx,
             outcomes, matchLog, changed, patchCalls, patchOk, errorAt,
             finishedLogged, fatalLogged>>
cmpVars == <<hash1, distResult, classResult, cpc>>
envVars == <<world, masterHashes, gist, mintedImages>>
histVars == <<prevPublished, prevBuilt, prevOutcomes>>
vars == <<envVars, pc, exitCode, histVars, runVars, cmpVars>>

\* ----------------------------------------------------------------- strings
Digits == <<"0", "1", "2", "3", "4", "5", "6", "7", "8", "9">>

\* the UTF-16 code unit order of the characters used here
CharCode(c) == CHOOSE k \in 1..10 : Digits[k] = c

RECURSIVE ToNum(_)
ToNum(s) == IF s = <<>> THEN 0
            ELSE 10 * ToNum(SubSeq(s, 1, Len(s) - 1)) + (CharCode(s[Len(s)]) - 1)

RECURSIVE Rep(_, _)
Rep(c, n) == IF n <= 0 THEN <<>> ELSE <<c>> \o Rep(c, n - 1)

SeqRange(s) == {s[k] : k \in 1..Len(s)}

\* ------------------------------------------------ JavaScript values in use
\* a < b in the order Array.prototype.sort() uses with no comparator
RECURSIVE StrLess(_, _)
StrLess(a, b) ==
  IF a = <<>> THEN b # <<>>
  ELSE IF b = <<>> THEN FALSE
  ELSE IF a[1] # b[1] THEN CharCode(a[1]) < CharCode(b[1])
  ELSE StrLess(Tail(a), Tail(b))

RECURSIVE InsertSorted(_, _)
InsertSorted(sorted, k) ==
  IF sorted = <<>> THEN <<k>>
  ELSE IF StrLess(k, sorted[1]) THEN <<k>> \o sorted
  ELSE <<sorted[1]>> \o InsertSorted(Tail(sorted), k)

\* keys.sort()
RECURSIVE ArraySort(_)
ArraySort(keys) ==
  IF keys = <<>> THEN <<>>
  ELSE InsertSorted(ArraySort(SubSeq(keys, 1, Len(keys) - 1)), keys[Len(keys)])

\* obj[key] = true, for an integer-like key
RECURSIVE ObjSet(_, _)
ObjSet(obj, key) ==
  IF obj = <<>> THEN <<key>>
  ELSE IF obj[1] = key THEN obj
  ELSE IF ToNum(key) < ToNum(obj[1]) THEN <<key>> \o obj
  ELSE <<obj[1]>> \o ObjSet(Tail(obj), key)

\* Object.keys(obj)
ObjectKeys(obj) == obj

\* JSON.stringify(array of strings), as its sequence of tokens
RECURSIVE JSONStringifyArray(_)
JSONStringifyArray(keys) ==
  IF keys = <<>> THEN <<"[", "]">>
  ELSE IF Len(keys) = 1 THEN <<"[", "\"">> \o keys[1] \o <<"\"", "]">>
  ELSE <<"[", "\"">> \o keys[1] \o <<"\"", ",">>
       \o Tail(JSONStringifyArray(Tail(keys)))

\* a stringify that loses the last member
JSONStringifyObjectDropsLast(obj) ==
  [k \in 1..(Len(ObjectKeys(obj)) - 1) |-> [key |-> ObjectKeys(obj)[k], value |-> TRUE]]

\* JSON.stringify(obj, null, 2) of an object whose values are all true: the
\* members of the document, in property order
JSONStringifyObject(obj) ==
  [k \in 1..Len(ObjectKeys(obj)) |-> [key |-> ObjectKeys(obj)[k], value |-> TRUE]]

\* JSON.parse(content) of a document whose members are listed in `content`: the
\* members are defined one after the other, the values play no part in the keys
RECURSIVE JSONParse(_)
JSONParse(content) ==
  IF content = <<>> THEN <<>>
  ELSE ObjSet(JSONParse(SubSeq(content, 1, Len(content) - 1)),
              content[Len(content)].key)

JsString(s) == [t |-> "string", s |-> s]
JsNull == [t |-> "null", s |-> <<>>]

\* ------------------------------------------------------------- curator.js
\* the loop of calculateHammingDistance from index i on; hash2[i] past the end of a
\* string is undefined, which differs from every character; indexing null throws
RECURSIVE HammingLoop(_, _, _, _)
HammingLoop(h1, h2, i, distance) ==
  IF ~(i <= Len(h1)) THEN [threw |-> FALSE, value |-> distance]
  ELSE IF h2.t = "null" THEN [threw |-> TRUE, value |-> 0]
  ELSE IF i > Len(h2.s) \/ h1[i] # h2.s[i]
       THEN HammingLoop(h1, h2, i + 1, distance + 1)
       ELSE HammingLoop(h1, h2, i + 1, distance)

calculateHammingDistance(h1, h2) == HammingLoop(h1, h2, 1, 0)

\* the comparison with < in place of <=
WithinThresholdStrict(distance) == distance < SIMILARITY_THRESHOLD

WithinThreshold(distance) == distance <= SIMILARITY_THRESHOLD

\* the for-in loop over masterHashes from entry k on
RECURSIVE MatchLoop(_, _, _)
MatchLoop(newHash, store, k) ==
  IF k > Len(store) THEN [threw |-> FALSE, matched |-> FALSE, name |-> "", distance |-> 0]
  ELSE LET d == calculateHammingDistance(newHash, store[k].hash)
       IN IF d.threw
            THEN [threw |-> TRUE, matched |-> FALSE, name |-> "", distance |-> 0]
          ELSE IF WithinThreshold(d.value)
            THEN [threw |-> FALSE, matched |-> TRUE, name |-> store[k].name,
                  distance |-> d.value]
          ELSE MatchLoop(newHash, store, k + 1)

\* a fetch that falls back on the document's members when the request fails
getCurrentCensoredListStale(response, doc) ==
  IF response # "ok" THEN [list |-> JSONParse(doc.content), how |-> response]
  ELSE IF doc.kind = "nofile" THEN [list |-> <<>>, how |-> "nofile"]
  ELSE IF doc.kind = "unparseable" THEN [list |-> <<>>, how |-> "parseError"]
  ELSE [list |-> JSONParse(doc.content), how |-> "ok"]

\* getCurrentCensoredList: response is what the GET of the Gist comes to
getCurrentCensoredList(response, doc) ==
  IF response # "ok" THEN [list |-> <<>>, how |-> response]
  ELSE IF doc.kind = "nofile" THEN [list |-> <<>>, how |-> "nofile"]
  ELSE IF doc.kind = "unparseable" THEN [list |-> <<>>, how |-> "parseError"]
  ELSE [list |-> JSONParse(doc.content), how |-> "ok"]

\* a test that compares the two lengths only
KeysDifferByLength(oldKeys, newKeys) == Len(oldKeys) # Len(newKeys)

\* the test of line 186
KeysDiffer(oldKeys, newKeys) ==
  JSONStringifyArray(oldKeys) # JSONStringifyArray(newKeys)

\* a catch block that starts the list over
CaughtErrorResetsList(list, outcome) ==
  [list |-> <<>>, outcome |-> outcome, wrote |-> FALSE, log |-> <<>>]

\* the catch block of the loop body (lines 178-180): the error is logged, the
\* list stays as it is, the loop goes on
CaughtError(list, outcome) ==
  [list |-> list, outcome |-> outcome, wrote |-> FALSE, log |-> <<>>]

\* the two `continue` statements (lines 147-150 and 153-156)
Skipped(list, outcome) ==
  [list |-> list, outcome |-> outcome, wrote |-> FALSE, log |-> <<>>]

\* one iteration of the for-of loop of runCurator (lines 144-180) on the list built
\* so far: resolution is what the token's tokenUri, metadata and image come to,
\* fileExists is fs.existsSync(imagePath), writeOk whether image.write succeeds
LoopBody(list, nft, resolution, fileExists, writeOk, store) ==
  IF resolution.kind = "noTokenUri"
    THEN Skipped(list, "noTokenUri")
  ELSE IF resolution.kind = "metadataError"
    THEN CaughtError(list, "metadataError")
  ELSE IF resolution.kind = "noImage"
    THEN Skipped(list, "noImage")
  ELSE IF resolution.kind = "readError"
    THEN CaughtError(list, "readError")
  ELSE IF ~fileExists /\ ~writeOk
    THEN CaughtError(list, "writeError")
  ELSE LET m == MatchLoop(resolution.hash, store, 1)
       IN IF m.threw
            THEN [CaughtError(list, "compareError") EXCEPT !.wrote = ~fileExists]
          ELSE IF m.matched
            THEN [list |-> ObjSet(list, nft.tokenId), outcome |-> "match",
                  wrote |-> ~fileExists,
                  log |-> <<[tokenId |-> nft.tokenId, name |-> m.name,
                             distance |-> m.distance]>>]
          ELSE [list |-> list, outcome |-> "noMatch", wrote |-> ~fileExists,
                log |-> <<>>]

\* a loop that stops after its first iteration
LoopDoneAfterFirst(i, nfts) == i >= 1 \/ ~(i < Len(nfts))

\* the for-of loop has consumed the whole array
LoopDone(i, nfts) == ~(i < Len(nfts))

\* ------------------------------------------------------------ environment
TokenIds == << <<"9">>, <<"1", "0">>, <<"2">>, <<"1", "1">> >>

\* what alchemy.nft.getNftsForContractIterator yields
Collection == [i \in 1..NumItems |-> [tokenId |-> TokenIds[i]]]

NameOf == <<"a.jpg", "b.jpg", "c.jpg", "d.jpg">>

RefA == Rep("0", HashLen)
RefB == Rep("0", HashLen - 1) \o <<"1">>
RefShort == Rep("0", HashLen - 1)

\* a hash at distance SIMILARITY_THRESHOLD from RefA, and one a step further
\* that is farther still from RefB
HashNear == Rep("1", SIMILARITY_THRESHOLD) \o Rep("0", HashLen - SIMILARITY_THRESHOLD)
HashFar == Rep("1", SIMILARITY_THRESHOLD + 1)
           \o Rep("0", HashLen - SIMILARITY_THRESHOLD - 1)

\* master-hashes.json in the runs of the curator: two hashes, or a hash and a null
RunStores ==
  { << [name |-> "a.jpg", hash |-> JsString(RefA)],
       [name |-> "b.jpg", hash |-> JsString(RefB)] >>,
    << [name |-> "a.jpg", hash |-> JsString(RefA)],
       [name |-> "b.jpg", hash |-> JsNull] >> }

Unresolved == {"noTokenUri", "metadataError", "noImage", "readError"}

\* per token: whether it resolves to an image at all, the image's pHash, and
\* whether writing the image to ./minted-images fails
TokenFates ==
     {[resolves |-> FALSE, hash |-> <<>>, writeFails |-> FALSE]}
     \cup {[resolves |-> TRUE, hash |-> h, writeFails |-> w] :
             h \in {HashNear, HashFar}, w \in BOOLEAN}

Worlds == [1..NumItems -> TokenFates]

RECURSIVE Descending(_)
Descending(n) == IF n = 0 THEN <<>> ELSE <<n>> \o Descending(n - 1)

\* the documents the Gist may hold when the first run starts: no file of that
\* name, text that is no JSON, or an object over some of the token ids
InitialDocs ==
  {[kind |-> "nofile", content |-> <<>>], [kind |-> "unparseable", content |-> <<>>]}
  \cup {[kind |-> "ok",
         content |-> [k \in 1..Len(sel) |-> [key |-> TokenIds[sel[k]], value |-> TRUE]]] :
          sel \in {SelectSeq(Descending(NumItems), LAMBDA i : i \in S) :
                     S \in SUBSET (1..NumItems)}}

RunInit ==
  /\ currentCensoredList = <<>>
  /\ fetchHow = "none"
  /\ newCensoredList = <<>>
  /\ twinList = <<>>
  /\ allNfts = <<>>
  /\ idx = 0
  /\ outcomes = <<>>
  /\ matchLog = <<>>
  /\ changed = "unset"
  /\ patchCalls = 0
  /\ patchOk = FALSE
  /\ errorAt = "none"
  /\ finishedLogged = FALSE
  /\ fatalLogged = FALSE

CmpIdle ==
  /\ hash1 = <<>>
  /\ distResult = [called |-> FALSE, k |-> 0, threw |-> FALSE, value |-> 0]
  /\ classResult = [threw |-> FALSE, matched |-> FALSE, name |-> "", distance |-> 0]
  /\ cpc = "off"

Init ==
  /\ world \in Worlds
  /\ masterHashes \in RunStores
  /\ gist \in InitialDocs
  /\ mintedImages = {}
  /\ pc = "start"
  /\ exitCode = 0
  /\ prevPublished = FALSE
  /\ prevBuilt = <<>>
  /\ prevOutcomes = <<>>
  /\ RunInit
  /\ CmpIdle

\* ---------------------------------------------------------------- actions
\* lines 131-134: the GET of the Gist, then the empty new list
FetchCurrentList ==
  /\ pc = "start"
  /\ \E response \in {"ok", "networkError", "unauthorized"} :
       LET r == getCurrentCensoredList(response, gist)
       IN /\ currentCensoredList' = r.list
          /\ fetchHow' = r.how
  /\ newCensoredList' = <<>>
  /\ twinList' = <<>>
  /\ pc' = "enumerate"
  /\ UNCHANGED <<world, masterHashes, gist, mintedImages, exitCode, histVars,
                 allNfts, idx, outcomes, matchLog, changed, patchCalls, patchOk,
                 errorAt, finishedLogged, fatalLogged, cmpVars>>

\* lines 137-141: the iterator yields the whole collection, or throws
EnumerateNfts ==
  /\ pc = "enumerate"
  /\ \E ok \in BOOLEAN :
       IF ok THEN /\ allNfts' = Collection
                  /\ pc' = "loop"
                  /\ errorAt' = errorAt
             ELSE /\ allNfts' = allNfts
                  /\ pc' = "rejected"
                  /\ errorAt' = "enumerate"
  /\ idx' = 0
  /\ UNCHANGED <<world, masterHashes, gist, mintedImages, exitCode, histVars,
                 currentCensoredList, fetchHow, newCensoredList, twinList,
                 outcomes, matchLog, changed, patchCalls, patchOk,
                 finishedLogged, fatalLogged, cmpVars>>

\* what resolving and hashing token i can come to in this run
Resolutions(i) ==
  IF world[i].resolves THEN {[kind |-> "hashed", hash |-> world[i].hash]}
  ELSE {[kind |-> k, hash |-> <<>>] : k \in Unresolved}

\* lines 143-181: one iteration of the loop
ProcessItem ==
  /\ pc = "loop"
  /\ ~LoopDone(idx, allNfts)
  /\ LET i == idx + 1
         nft == allNfts[i]
     IN \E resolution \in Resolutions(i) :
          LET r == LoopBody(newCensoredList, nft, resolution,
                            nft.tokenId \in mintedImages, ~world[i].writeFails,
                            masterHashes)
              t == LoopBody(twinList, nft, resolution, TRUE, TRUE, masterHashes)
          IN /\ newCensoredList' = r.list
             /\ twinList' = t.list
             /\ outcomes' = Append(outcomes, [kind |-> r.outcome, hash |-> resolution.hash])
             /\ matchLog' = matchLog \o r.log
             /\ mintedImages' = IF r.wrote THEN mintedImages \cup {nft.tokenId}
                                ELSE mintedImages
  /\ idx' = idx + 1
  /\ UNCHANGED <<world, masterHashes, gist, pc, exitCode, histVars,
                 currentCensoredList, fetchHow, allNfts, changed, patchCalls, patchOk,
                 errorAt, finishedLogged, fatalLogged, cmpVars>>

\* lines 183-186 and 195-197: the comparison, and the return when nothing changed
Reconcile ==
  /\ pc = "loop"
  /\ LoopDone(idx, allNfts)
  /\ LET oldKeys == ArraySort(ObjectKeys(currentCensoredList))
         newKeys == ArraySort(ObjectKeys(newCensoredList))
     IN IF KeysDiffer(oldKeys, newKeys)
          THEN changed' = "yes" /\ pc' = "publish"
          ELSE changed' = "no" /\ pc' = "resolved"
  /\ UNCHANGED <<world, masterHashes, gist, mintedImages, exitCode, histVars,
                 currentCensoredList, fetchHow, newCensoredList, twinList, allNfts,
                 idx, outcomes, matchLog, patchCalls, patchOk, errorAt,
                 finishedLogged, fatalLogged, cmpVars>>

\* lines 189-194: the PATCH of the Gist, which replaces the file or throws
Publish ==
  /\ pc = "publish"
  /\ patchCalls' = patchCalls + 1
  /\ \E ok \in BOOLEAN :
       IF ok THEN /\ gist' = [kind |-> "ok",
                              content |-> JSONStringifyObject(newCensoredList)]
                  /\ patchOk' = TRUE
                  /\ pc' = "resolved"
                  /\ errorAt' = errorAt
             ELSE /\ gist' = gist
                  /\ patchOk' = FALSE
                  /\ pc' = "rejected"
                  /\ errorAt' = "publish"
  /\ UNCHANGED <<world, masterHashes, mintedImages, exitCode, histVars,
                 currentCensoredList, fetchHow, newCensoredList, twinList, allNfts,
                 idx, outcomes, matchLog, changed, finishedLogged, fatalLogged,
                 cmpVars>>

\* line 200: .then(() => console.log('Curator run finished successfully.'))
ThenHandler ==
  /\ pc = "resolved"
  /\ finishedLogged' = TRUE
  /\ pc' = "exited"
  /\ UNCHANGED <<world, masterHashes, gist, mintedImages, exitCode, histVars,
                 currentCensoredList, fetchHow, newCensoredList, twinList, allNfts,
                 idx, outcomes, matchLog, changed, patchCalls, patchOk, errorAt,
                 fatalLogged, cmpVars>>

\* lines 200-203: .catch logs the error; nothing sets process.exitCode and the
\* rejection is handled, so node exits with the code it had
CatchHandler ==
  /\ pc = "rejected"
  /\ fatalLogged' = TRUE
  /\ exitCode' = exitCode
  /\ pc' = "exited"
  /\ UNCHANGED <<world, masterHashes, gist, mintedImages, histVars,
                 currentCensoredList, fetchHow, newCensoredList, twinList, allNfts,
                 idx, outcomes, matchLog, changed, patchCalls, patchOk, errorAt,
                 finishedLogged, cmpVars>>

\* the script is started again: a new process, a new call of runCurator
NextRun ==
  /\ pc = "exited"
  /\ pc' = "start"
  /\ prevPublished' = patchOk
  /\ prevBuilt' = IF patchOk THEN newCensoredList ELSE <<>>
  /\ prevOutcomes' = IF patchOk THEN outcomes ELSE <<>>
  /\ exitCode' = 0
  /\ currentCensoredList' = <<>>
  /\ fetchHow' = "none"
  /\ newCensoredList' = <<>>
  /\ twinList' = <<>>
  /\ allNfts' = <<>>
  /\ idx' = 0
  /\ outcomes' = <<>>
  /\ matchLog' = <<>>
  /\ changed' = "unset"
  /\ patchCalls' = 0
  /\ patchOk' = FALSE
  /\ errorAt' = "none"
  /\ finishedLogged' = FALSE
  /\ fatalLogged' = FALSE
  /\ UNCHANGED <<world, masterHashes, gist, mintedImages, cmpVars>>

\* before a run starts a token's metadata, image or file system fate changes
WorldChanges ==
  /\ pc = "start"
  /\ \E i \in 1..NumItems, w \in TokenFates :
       /\ w # world[i]
       /\ world' = [world EXCEPT ![i] = w]
  /\ prevPublished' = FALSE
  /\ prevBuilt' = <<>>
  /\ prevOutcomes' = <<>>
  /\ UNCHANGED <<masterHashes, gist, mintedImages, pc, exitCode, runVars, cmpVars>>

\* before a run starts ./minted-images is emptied (a fresh checkout)
CacheCleared ==
  /\ pc = "start"
  /\ mintedImages # {}
  /\ mintedImages' = {}
  /\ UNCHANGED <<world, masterHashes, gist, pc, exitCode, histVars, runVars, cmpVars>>

Next ==
  \/ FetchCurrentList
  \/ EnumerateNfts
  \/ ProcessItem
  \/ Reconcile
  \/ Publish
  \/ ThenHandler
  \/ CatchHandler
  \/ NextRun
  \/ WorldChanges
  \/ CacheCleared

Spec == Init /\ [][Next]_vars

\* ------------------------------------------- runs of the comparator alone
BitStrings(n) == [1..n -> {"0", "1"}]

\* the hashes handed to the comparator: of the stores' length, and one shorter
Sigs == BitStrings(HashLen) \cup BitStrings(HashLen - 1)

Refs == {RefA, RefB, RefShort}

\* master-hashes.json in the runs of the comparator: up to MaxRefs entries
CompareStores ==
  UNION {[1..n -> Refs] : n \in 1..MaxRefs}

StoreOf(refs) == [k \in 1..Len(refs) |-> [name |-> NameOf[k], hash |-> JsString(refs[k])]]

InitCompare ==
  /\ world = [i \in 1..NumItems |-> [resolves |-> FALSE, hash |-> <<>>, writeFails |-> FALSE]]
  /\ \E refs \in CompareStores : masterHashes = StoreOf(refs)
  /\ gist = [kind |-> "nofile", content |-> <<>>]
  /\ mintedImages = {}
  /\ pc = "off"
  /\ exitCode = 0
  /\ prevPublished = FALSE
  /\ prevBuilt = <<>>
  /\ prevOutcomes = <<>>
  /\ RunInit
  /\ hash1 \in Sigs
  /\ distResult = [called |-> FALSE, k |-> 0, threw |-> FALSE, value |-> 0]
  /\ classResult = [threw |-> FALSE, matched |-> FALSE, name |-> "", distance |-> 0]
  /\ cpc = "ready"

\* one call calculateHammingDistance(newHash, masterHash) (line 170)
CallDistance ==
  /\ cpc = "ready"
  /\ \E k \in 1..Len(masterHashes) :
       LET d == calculateHammingDistance(hash1, masterHashes[k].hash)
       IN distResult' = [called |-> TRUE, k |-> k, threw |-> d.threw, value |-> d.value]
  /\ cpc' = "distance"
  /\ UNCHANGED <<envVars, pc, exitCode, histVars, runVars,
                 hash1, classResult>>

\* the for-in loop of lines 168-177 on one hash
ClassifyItem ==
  /\ cpc = "ready"
  /\ classResult' = MatchLoop(hash1, masterHashes, 1)
  /\ cpc' = "classified"
  /\ UNCHANGED <<envVars, pc, exitCode, histVars, runVars,
                 hash1, distResult>>

NextCompare ==
  \/ CallDistance
  \/ ClassifyItem

SpecCompare == InitCompare /\ [][NextCompare]_vars

\* ------------------------------------------------------------- properties
KeySet(obj) == SeqRange(ObjectKeys(obj))

\* the number of positions at which two strings of one length differ
Hamming(a, b) == Cardinality({i \in 1..Len(a) : a[i] # b[i]})

\* the comparison of line 186 has been made in this run
Compared == changed # "unset"

\* C1: once a run has made its comparison, it has called the PATCH if and only if
\* the sorted key sequences of the fetched list and of the built list differ, which
\* is so if and only if the two key sets differ.
PublishIffKeysDiffer ==
  (Compared /\ pc \in {"resolved", "rejected", "exited"}) =>
    /\ (patchCalls > 0) <=> (KeySet(currentCensoredList) # KeySet(newCensoredList))
    /\ (patchCalls > 0) <=> (ArraySort(ObjectKeys(currentCensoredList))
                               # ArraySort(ObjectKeys(newCensoredList)))
    /\ (patchCalls > 0) <=> (changed = "yes")

\* C1 witness: a run that published although old and new list have the same size
PublishedOnSwap ==
  /\ pc = "exited"
  /\ patchCalls = 1
  /\ Len(currentCensoredList) = Len(newCensoredList)
  /\ Len(newCensoredList) > 0

\* a token that was enumerated, resolved and hashed and has a master hash within
\* the threshold
Eligible(i) ==
  /\ i \in 1..Len(allNfts)
  /\ world[i].resolves
  /\ \E k \in 1..Len(masterHashes) :
       /\ masterHashes[k].hash.t = "string"
       /\ Len(masterHashes[k].hash.s) = Len(world[i].hash)
       /\ Hamming(world[i].hash, masterHashes[k].hash.s) <= SIMILARITY_THRESHOLD

\* C2: when the comparison is made, the built list holds exactly the ids of the
\* tokens that were enumerated, resolved, hashed and within the threshold of some
\* master hash, whatever the fetched list held.
BuiltListIsExactlyTheMatches ==
  Compared => KeySet(newCensoredList) = {allNfts[i].tokenId : i \in {j \in 1..Len(allNfts) : Eligible(j)}}

\* C3: on a hash and master hashes of one length, the loop reports the first entry,
\* in store order, whose Hamming distance is at most the threshold, with that
\* distance, and reports no match exactly when every entry is farther.
FirstWithinThresholdWins ==
  (cpc = "classified"
   /\ \A k \in 1..Len(masterHashes) : Len(masterHashes[k].hash.s) = Len(hash1)) =>
    LET hits == {k \in 1..Len(masterHashes) :
                   Hamming(hash1, masterHashes[k].hash.s) <= SIMILARITY_THRESHOLD}
    IN IF hits = {}
         THEN ~classResult.matched
         ELSE LET first == CHOOSE k \in hits : \A j \in hits : k <= j
              IN /\ classResult.matched
                 /\ classResult.name = masterHashes[first].name
                 /\ classResult.distance = Hamming(hash1, masterHashes[first].hash.s)

\* C3 witness: the first entry matches at exactly the threshold while a later
\* entry is closer
FirstWinsOverCloser ==
  /\ cpc = "classified"
  /\ \A k \in 1..Len(masterHashes) : Len(masterHashes[k].hash.s) = Len(hash1)
  /\ classResult.matched
  /\ classResult.name = "a.jpg"
  /\ classResult.distance = SIMILARITY_THRESHOLD
  /\ \E k \in 2..Len(masterHashes) :
       Hamming(hash1, masterHashes[k].hash.s) < SIMILARITY_THRESHOLD

FailureOutcomes == {"noTokenUri", "metadataError", "noImage", "readError", "compareError"}

\* C4: an iteration that fails to resolve, read, hash or compare its token leaves
\* the built list as it was, moves on to the next token only, and leaves the run
\* in its loop, from where the comparison is reached.
FailureSkipsOnlyThatItem ==
  [][(pc = "loop" /\ idx' # idx /\ outcomes'[idx'].kind \in FailureOutcomes) =>
       /\ newCensoredList' = newCensoredList
       /\ idx' = idx + 1
       /\ pc' = "loop"
       /\ errorAt' = "none"]_vars

\* C4 witness: the comparison was reached after the last token failed, with the
\* id of an earlier token still on the list
ComparedAfterFailure ==
  /\ Compared
  /\ Len(outcomes) = NumItems
  /\ outcomes[NumItems].kind \in FailureOutcomes
  /\ Len(newCensoredList) > 0
  /\ idx = NumItems

\* C5: a call of calculateHammingDistance on strings of different lengths throws.
LengthMismatchThrows ==
  (distResult.called /\ Len(hash1) # Len(masterHashes[distResult.k].hash.s)) =>
    distResult.threw

FetchFailed == fetchHow \in {"networkError", "unauthorized", "nofile", "parseError"}

\* C6: when the fetch of the published list fails, the fetched list is empty, the
\* run goes on to enumerate, and its comparison asks for the PATCH exactly when a
\* token was logged as a match.
FetchFailureMeansEmpty ==
  FetchFailed =>
    /\ currentCensoredList = <<>>
    /\ errorAt # "none" => pc \in {"rejected", "exited"} /\ errorAt \in {"enumerate", "publish"}
    /\ Compared => ((changed = "yes") <=> (matchLog # <<>>))
    /\ (pc \in {"resolved", "rejected", "exited"} /\ Compared) =>
         ((patchCalls = 1) <=> (matchLog # <<>>))

\* C6 witness: the request failed while the Gist held the very list the run built,
\* and the run published
PublishedAfterFailedFetch ==
  /\ fetchHow \in {"networkError", "unauthorized"}
  /\ gist.kind = "ok"
  /\ prevPublished
  /\ patchOk
  /\ matchLog # <<>>

\* C7: a run whose error reached the top level ends with a non-zero exit code and
\* the diagnostic, and without the success line.
EscapedErrorExitsNonZero ==
  (pc = "exited" /\ errorAt # "none") =>
    /\ exitCode # 0
    /\ fatalLogged
    /\ ~finishedLogged

\* C8 as stated: a run that follows a successful publish and has, token by token,
\* the outcomes of that run does not ask for the PATCH.
SecondRunNeverRepublishes ==
  (prevPublished /\ Compared /\ outcomes = prevOutcomes) => changed = "no"

\* C8 as amended: the document a successful PATCH leaves reads back as the ids of
\* the built list; and a run after a successful publish whose fetch succeeds sees
\* those ids and, when its outcomes are token by token those of that run, builds
\* the same list and does not ask for the PATCH.
SecondRunAfterFetchDoesNotRepublish ==
  /\ patchOk => /\ gist.kind = "ok"
                /\ KeySet(JSONParse(gist.content)) = KeySet(newCensoredList)
                /\ Len(gist.content) = Len(newCensoredList)
  /\ (prevPublished /\ fetchHow = "ok") =>
       /\ KeySet(currentCensoredList) = KeySet(prevBuilt)
       /\ (Compared /\ outcomes = prevOutcomes) =>
            /\ KeySet(newCensoredList) = KeySet(prevBuilt)
            /\ changed = "no"
            /\ patchCalls = 0

\* C8 witness: the run after a successful publish of a list of two ids fetched it,
\* built it again and returned without a PATCH
SecondRunQuiet ==
  /\ prevPublished
  /\ Len(prevBuilt) >= 2
  /\ fetchHow = "ok"
  /\ outcomes = prevOutcomes
  /\ changed = "no"
  /\ pc = "exited"
  /\ patchCalls = 0

\* C9: the comparison and the PATCH come after the loop has consumed every token
\* the iterator yielded, a run calls the PATCH at most once, and a run whose
\* enumeration threw neither compares nor calls the PATCH.
ReconcileOnlyAfterAllItems ==
  /\ (Compared \/ pc = "publish" \/ patchCalls > 0) =>
       /\ allNfts = Collection
       /\ idx = Len(allNfts)
  /\ patchCalls <= 1
  /\ patchCalls > 0 => changed = "yes"
  /\ errorAt = "enumerate" => ~Compared /\ patchCalls = 0 /\ ~patchOk

\* C9 witness: a run that went through every token and then published
PublishedAfterFullLoop ==
  /\ pc = "exited"
  /\ patchOk
  /\ patchCalls = 1
  /\ idx = NumItems
  /\ outcomes[NumItems].kind = "match"

\* C10: the built list and the outcome of the comparison are those of the twin
\* run that differs only in finding every image in ./minted-images already.
CacheDoesNotAffectResult ==
  Compared =>
    /\ KeySet(newCensoredList) = KeySet(twinList)
    /\ (changed = "yes") <=> KeysDiffer(ArraySort(ObjectKeys(currentCensoredList)),
                                        ArraySort(ObjectKeys(twinList)))

====
